---- MODULE Spec2Model ----
(***************************************************************************)
(* Keyset pagination of an experiment's runs.                              *)
(*                                                                         *)
(*   src/src/phoenix/server/api/types/Experiment.py        Experiment.runs *)
(*   src/src/phoenix/server/api/input_types/ExperimentRunSort.py           *)
(*                               add_order_by_and_page_start_to_query      *)
(*                                                                         *)
(* The experiment_runs table is a set of rows.  A SELECT statement is a    *)
(* record of its clauses; executing it filters the table by the WHERE      *)
(* clauses under SQL's three-valued logic, orders the rows by the ORDER BY *)
(* columns (rows that tie may come in any order) and keeps LIMIT rows.     *)
(***************************************************************************)
EXTENDS Integers, Sequences, FiniteSets, TLC

VARIABLES db, call, chain

vars == <<db, call, chain>>

(***************************************************************************)
(* Bounds of the model.                                                    *)
(***************************************************************************)
MaxRunId == 3
MaxFirst == 2

RunIds == 1..MaxRunId
ExperimentIds == {1, 2}
ExampleIds == {1, 2}
RepetitionNumbers == {1, 2}
LatencyValues == {10, 20, 30}

(***************************************************************************)
(* Experiment.py:26                                                        *)
(***************************************************************************)
DEFAULT_EXPERIMENT_RUNS_PAGE_SIZE == 50

(***************************************************************************)
(* Python values.  An Optional[int] is a sequence of length 0 (None) or 1. *)
(***************************************************************************)
None == <<>>
Some(v) == <<v>>

(***************************************************************************)
(* str(int) and int(str) on decimal strings, a string being a sequence of  *)
(* characters.                                                             *)
(***************************************************************************)
DigitChars == <<"0", "1", "2", "3", "4", "5", "6", "7", "8", "9">>

RECURSIVE Str(_)
Str(n) ==
    IF n < 10 THEN <<DigitChars[n + 1]>>
    ELSE Append(Str(n \div 10), DigitChars[(n % 10) + 1])

DigitValue(c) == (CHOOSE i \in 1..10 : DigitChars[i] = c) - 1

IsDecimal(s) ==
    /\ Len(s) >= 1
    /\ \A i \in 1..Len(s) : \E d \in 1..10 : DigitChars[d] = s[i]

RECURSIVE ParseInt(_)
ParseInt(s) ==
    IF Len(s) = 1 THEN DigitValue(s[1])
    ELSE 10 * ParseInt(SubSeq(s, 1, Len(s) - 1)) + DigitValue(s[Len(s)])

(***************************************************************************)
(* strawberry.relay.GlobalID(type_name, node_id) and strawberry.UNSET.     *)
(***************************************************************************)
GlobalID(type_name, node_id) == [type_name |-> type_name, node_id |-> node_id]

UNSET == [type_name |-> "UNSET", node_id |-> <<>>]

(***************************************************************************)
(* from_global_id_with_expected_type(global_id, expected_type_name): the   *)
(* integer node id, or ValueError when the type name differs or the node   *)
(* id is not an integer.                                                   *)
(***************************************************************************)
from_global_id_with_expected_type(global_id, expected_type_name) ==
    IF global_id.type_name # expected_type_name
    THEN [raised |-> "ValueError", value |-> 0]
    ELSE IF ~IsDecimal(global_id.node_id)
    THEN [raised |-> "ValueError", value |-> 0]
    ELSE [raised |-> "", value |-> ParseInt(global_id.node_id)]

(***************************************************************************)
(* ExperimentRunSort: col is one of {metric, annotation_name}, dir a       *)
(* SortDir.  An absent sort is UnsetSort.                                  *)
(***************************************************************************)
Metrics == {"tokenCountTotal", "latencyMs", "tokenCostTotal"}
SortDirs == {"asc", "desc"}
AnnotationNames == {"quality"}

UnsetSort == [set |-> FALSE, metric |-> "None", annotation_name |-> "None", dir |-> "asc"]

MetricSort(m, d) == [set |-> TRUE, metric |-> m, annotation_name |-> "None", dir |-> d]

AnnotationSort(a, d) == [set |-> TRUE, metric |-> "None", annotation_name |-> a, dir |-> d]

Sorts ==
    {UnsetSort}
        \cup {MetricSort(m, d) : m \in Metrics, d \in SortDirs}
        \cup {AnnotationSort(a, d) : a \in AnnotationNames, d \in SortDirs}

(***************************************************************************)
(* The experiment_runs table.  (experiment_id, dataset_example_id,         *)
(* repetition_number) is unique; id is the primary key.                    *)
(***************************************************************************)
Row(id, e, x, n, l) ==
    [id |-> id, experiment_id |-> e, dataset_example_id |-> x,
     repetition_number |-> n, latency_ms |-> l]

SameKey(r1, r2) ==
    /\ r1.experiment_id = r2.experiment_id
    /\ r1.dataset_example_id = r2.dataset_example_id
    /\ r1.repetition_number = r2.repetition_number

UniqueKeys(table) ==
    \A r1, r2 \in table :
        /\ r1.id = r2.id => r1 = r2
        /\ SameKey(r1, r2) => r1 = r2

(***************************************************************************)
(* SQL.  A scalar subquery  SELECT col FROM experiment_runs WHERE id = x   *)
(* is the set of its values: empty when no row has that id (NULL).         *)
(***************************************************************************)
ScalarSubquery(table, col, rowid) == {r[col] : r \in {x \in table : x.id = rowid}}

\* Three-valued truth: "T", "F", "N" (NULL).
And3(p, q) ==
    IF p = "F" \/ q = "F" THEN "F" ELSE IF p = "T" /\ q = "T" THEN "T" ELSE "N"

Or3(p, q) ==
    IF p = "T" \/ q = "T" THEN "T" ELSE IF p = "F" /\ q = "F" THEN "F" ELSE "N"

\* column > (subquery), column < (subquery), column = (subquery)
Gt3(a, sub) == IF sub = {} THEN "N" ELSE IF a > (CHOOSE v \in sub : TRUE) THEN "T" ELSE "F"

Lt3(a, sub) == IF sub = {} THEN "N" ELSE IF a < (CHOOSE v \in sub : TRUE) THEN "T" ELSE "F"

Eq3(a, sub) == IF sub = {} THEN "N" ELSE IF a = (CHOOSE v \in sub : TRUE) THEN "T" ELSE "F"

\* The row value comparison (a, b) > (x, y).
TupleGt3(a, b, x, y) == Or3(Gt3(a, x), And3(Eq3(a, x), Gt3(b, y)))

(***************************************************************************)
(* A WHERE clause is [kind, arg]:                                          *)
(*   experiment_id_eq  experiment_id = arg                                 *)
(*   key_gt   (dataset_example_id, repetition_number) > the pair read from *)
(*            the row whose id is arg                                      *)
(*   latency_gt, latency_lt   latency_ms >, < the value read from it       *)
(***************************************************************************)
Clause(kind, arg) == [kind |-> kind, arg |-> arg]

ClauseValue(c, r, table) ==
    CASE c.kind = "experiment_id_eq" ->
            IF r.experiment_id = c.arg THEN "T" ELSE "F"
      [] c.kind = "key_gt" ->
            TupleGt3(r.dataset_example_id, r.repetition_number,
                     ScalarSubquery(table, "dataset_example_id", c.arg),
                     ScalarSubquery(table, "repetition_number", c.arg))
      [] c.kind = "latency_gt" ->
            Gt3(r.latency_ms, ScalarSubquery(table, "latency_ms", c.arg))
      [] c.kind = "latency_lt" ->
            Lt3(r.latency_ms, ScalarSubquery(table, "latency_ms", c.arg))

\* col.asc(), col.desc()
OrderCol(col, dir) == [col |-> col, dir |-> dir]

\* r1 sorts strictly before r2 under the ORDER BY columns.
RECURSIVE Before(_, _, _)
Before(order_by, r1, r2) ==
    IF order_by = <<>> THEN FALSE
    ELSE LET c == Head(order_by)
             a == r1[c.col]
             b == r2[c.col]
         IN  IF a = b THEN Before(Tail(order_by), r1, r2)
             ELSE IF c.dir = "asc" THEN a < b ELSE a > b

Select(where, order_by, joins, limit) ==
    [where |-> where, order_by |-> order_by, joins |-> joins, limit |-> limit]

NoQuery == Select(<<>>, <<>>, <<>>, 0)

Matching(q, table) ==
    {r \in table : \A i \in 1..Len(q.where) : ClauseValue(q.where[i], r, table) = "T"}

Orderings(q, rows) ==
    {s \in [1..Cardinality(rows) -> rows] :
        /\ \A i, j \in 1..Cardinality(rows) : i # j => s[i] # s[j]
        /\ \A i, j \in 1..Cardinality(rows) : i < j => ~Before(q.order_by, s[j], s[i])}

Take(s, n) == IF Len(s) <= n THEN s ELSE SubSeq(s, 1, n)

\* session.scalars(query).all(): every row sequence the statement may return.
Execute(q, table) == {Take(s, q.limit) : s \in Orderings(q, Matching(q, table))}

(***************************************************************************)
(* ExperimentRunSort.py.  A function that may raise returns                *)
(* [raised, value]: raised is "" or the exception's name.                  *)
(***************************************************************************)
Returned(v) == [raised |-> "", value |-> v]

Raised(exc, v) == [raised |-> exc, value |-> v]

DefaultOrderBy ==
    <<OrderCol("dataset_example_id", "asc"), OrderCol("repetition_number", "asc")>>

\* Mutant: an unimplemented sort key falls back to the default ordering.
_get_order_by_columns_DefaultFallback(sort) ==
    IF ~sort.set THEN Returned(DefaultOrderBy)
    ELSE IF sort.metric = "latencyMs"
    THEN IF sort.dir = "asc"
         THEN Returned(<<OrderCol("latency_ms", "asc")>>)
         ELSE Returned(<<OrderCol("latency_ms", "desc")>>)
    ELSE Returned(DefaultOrderBy)

_get_order_by_columns(sort) ==
    IF ~sort.set THEN Returned(DefaultOrderBy)
    ELSE IF sort.metric # "None"
    THEN CASE sort.metric = "tokenCountTotal" -> Raised("NotImplementedError", <<>>)
           [] sort.metric = "latencyMs" ->
                IF sort.dir = "asc"
                THEN Returned(<<OrderCol("latency_ms", "asc")>>)
                ELSE Returned(<<OrderCol("latency_ms", "desc")>>)
           [] sort.metric = "tokenCostTotal" -> Raised("NotImplementedError", <<>>)
    ELSE Raised("NotImplementedError", <<>>)

\* Mutant: the comparison operators of the two directions are swapped.
_get_after_expression_Swapped(sort, experiment_run_rowid) ==
    IF ~sort.set THEN Returned(Clause("key_gt", experiment_run_rowid))
    ELSE IF sort.metric = "latencyMs"
    THEN IF sort.dir = "asc"
         THEN Returned(Clause("latency_lt", experiment_run_rowid))
         ELSE Returned(Clause("latency_gt", experiment_run_rowid))
    ELSE Raised("NotImplementedError", Clause("", 0))

_get_after_expression(sort, experiment_run_rowid) ==
    IF ~sort.set THEN Returned(Clause("key_gt", experiment_run_rowid))
    ELSE IF sort.metric # "None"
    THEN CASE sort.metric = "tokenCountTotal" ->
                Raised("NotImplementedError", Clause("", 0))
           [] sort.metric = "latencyMs" ->
                IF sort.dir = "asc"
                THEN Returned(Clause("latency_gt", experiment_run_rowid))
                ELSE Returned(Clause("latency_lt", experiment_run_rowid))
           [] sort.metric = "tokenCostTotal" ->
                Raised("NotImplementedError", Clause("", 0))
    ELSE Raised("NotImplementedError", Clause("", 0))

_add_joins_to_query(query, sort) ==
    IF ~sort.set THEN Returned(query)
    ELSE IF sort.metric # "None"
    THEN CASE sort.metric = "tokenCountTotal" -> Raised("NotImplementedError", query)
           [] sort.metric = "latencyMs" -> Returned(query)
           [] sort.metric = "tokenCostTotal" -> Raised("NotImplementedError", query)
    ELSE Raised("NotImplementedError", query)

\* When it raises, value is the query as it stood at the raise.
add_order_by_and_page_start_to_query(query, sort, after_experiment_run_rowid) ==
    LET order_by_columns == _get_order_by_columns(sort)
        ordered == [query EXCEPT !.order_by = @ \o order_by_columns.value]
        after_expression == _get_after_expression(sort, after_experiment_run_rowid[1])
        started ==
            IF after_experiment_run_rowid # None
            THEN [ordered EXCEPT !.where = Append(@, after_expression.value)]
            ELSE ordered
        joined == _add_joins_to_query(started, sort)
    IN  IF order_by_columns.raised # "" THEN Raised(order_by_columns.raised, query)
        ELSE IF after_experiment_run_rowid # None /\ after_expression.raised # ""
        THEN Raised(after_expression.raised, ordered)
        ELSE IF joined.raised # "" THEN Raised(joined.raised, started)
        ELSE Returned(joined.value)

(***************************************************************************)
(* Experiment.runs, up to the statement it is about to execute             *)
(* (Experiment.py:65-111).                                                 *)
(***************************************************************************)
PageSize(first) == IF first # None THEN first[1] ELSE DEFAULT_EXPERIMENT_RUNS_PAGE_SIZE

\* Mutant: the statement asks for page_size rows, not page_size + 1.
BaseQuery_NoExtraRow(experiment_id, first) ==
    Select(<<Clause("experiment_id_eq", experiment_id)>>, <<>>, <<>>, PageSize(first))

\* Mutant: the statement does not filter by experiment.
BaseQuery_NoExperimentFilter(experiment_id, first) ==
    Select(<<>>, <<>>, <<>>, PageSize(first) + 1)

BaseQuery(experiment_id, first) ==
    Select(<<Clause("experiment_id_eq", experiment_id)>>, <<>>, <<>>, PageSize(first) + 1)

\* Mutant: a cursor that does not decode is ignored, the page starts at the
\* first run.
RunsQuery_IgnoreBadCursor(experiment_id, first, after, sort) ==
    LET experiment_runs_query ==
            Select(<<Clause("experiment_id_eq", experiment_id)>>, <<>>, <<>>,
                   PageSize(first) + 1)
        ordered == [experiment_runs_query EXCEPT !.order_by = @ \o DefaultOrderBy]
        after_run_id == from_global_id_with_expected_type(after, "ExperimentRun")
    IN  IF sort.set THEN Raised("NotImplementedError", experiment_runs_query)
        ELSE IF after # UNSET /\ after_run_id.raised = ""
        THEN Returned([ordered EXCEPT
                           !.where = Append(@, Clause("key_gt", after_run_id.value))])
        ELSE Returned(ordered)

\* Mutant: the statement has no ORDER BY.
RunsQuery_NoOrderBy(experiment_id, first, after, sort) ==
    LET experiment_runs_query ==
            Select(<<Clause("experiment_id_eq", experiment_id)>>, <<>>, <<>>,
                   PageSize(first) + 1)
        after_run_id == from_global_id_with_expected_type(after, "ExperimentRun")
    IN  IF sort.set THEN Raised("NotImplementedError", experiment_runs_query)
        ELSE IF after # UNSET
        THEN IF after_run_id.raised = "ValueError"
             THEN Raised("BadRequest", experiment_runs_query)
             ELSE Returned([experiment_runs_query EXCEPT
                                !.where = Append(@, Clause("key_gt", after_run_id.value))])
        ELSE Returned(experiment_runs_query)

RunsQuery(experiment_id, first, after, sort) ==
    LET experiment_runs_query == BaseQuery(experiment_id, first)
        ordered == [experiment_runs_query EXCEPT !.order_by = @ \o DefaultOrderBy]
        after_run_id == from_global_id_with_expected_type(after, "ExperimentRun")
    IN  IF sort.set THEN Raised("NotImplementedError", experiment_runs_query)
        ELSE IF after # UNSET
        THEN IF after_run_id.raised = "ValueError" THEN Raised("BadRequest", ordered)
             ELSE Returned([ordered EXCEPT
                                !.where = Append(@, Clause("key_gt", after_run_id.value))])
        ELSE Returned(ordered)

(***************************************************************************)
(* Experiment.py:116-127: trim to the page size, one cursor per run.       *)
(***************************************************************************)
Cursor(run) == GlobalID("ExperimentRun", Str(run.id))

\* Mutant: a full page is taken to have a next page.
Connection_OffByOne(runs, page_size) ==
    LET kept == IF Len(runs) > page_size THEN SubSeq(runs, 1, page_size) ELSE runs
    IN  [runs |-> kept,
         cursors |-> [i \in 1..Len(kept) |-> Cursor(kept[i])],
         has_previous_page |-> FALSE,
         has_next_page |-> Len(runs) >= page_size]

Connection(runs, page_size) ==
    LET kept == IF Len(runs) > page_size THEN SubSeq(runs, 1, page_size) ELSE runs
    IN  [runs |-> kept,
         cursors |-> [i \in 1..Len(kept) |-> Cursor(kept[i])],
         has_previous_page |-> FALSE,
         has_next_page |-> Len(runs) > page_size]

(***************************************************************************)
(* State.                                                                  *)
(*   db     the experiment_runs table                                      *)
(*   call   the page request in flight: its arguments, the statement it    *)
(*          built, and its outcome (an exception or a connection)          *)
(*   chain  what a client that follows the cursors has collected so far    *)
(***************************************************************************)
NewCall(pc, via, experiment_id, first, after, after_rowid, sort, built) ==
    [pc |-> pc, via |-> via, experiment_id |-> experiment_id, first |-> first,
     after |-> after, after_rowid |-> after_rowid, sort |-> sort,
     query |-> built.value, raised |-> built.raised,
     runs |-> <<>>, cursors |-> <<>>, has_next_page |-> FALSE,
     has_previous_page |-> FALSE, session |-> FALSE,
     first_page |-> <<>>, foreign_writes |-> FALSE]

IdleCall == NewCall("idle", "", 0, None, UNSET, None, UnsetSort, Returned(NoQuery))

NoChain ==
    [active |-> FALSE, complete |-> FALSE, experiment_id |-> 0, sort |-> UnsetSort,
     runs |-> <<>>, lasts |-> <<>>]

\* The resolver up to its first await: it raises, or holds its statement.
StartCall(via, experiment_id, first, after, after_rowid, sort, built) ==
    NewCall(IF built.raised # "" THEN "done" ELSE "built",
            via, experiment_id, first, after, after_rowid, sort, built)

(***************************************************************************)
(* Experiment.runs(first, after, sort) on the experiment experiment_id,    *)
(* to the point where it opens the session.                                *)
(***************************************************************************)
Runs(experiment_id, first, after, sort) ==
    /\ call.pc = "idle"
    /\ chain = NoChain
    /\ call' = StartCall("runs", experiment_id, first, after, None, sort,
                         RunsQuery(experiment_id, first, after, sort))
    /\ UNCHANGED <<db, chain>>

(***************************************************************************)
(* A page request that builds its statement with                           *)
(* add_order_by_and_page_start_to_query from the base query of the         *)
(* experiment's runs.                                                      *)
(***************************************************************************)
BuildPage(experiment_id, first, sort, after_rowid) ==
    /\ call.pc = "idle"
    /\ chain = NoChain
    /\ call' = StartCall("builder", experiment_id, first, UNSET, after_rowid, sort,
                         add_order_by_and_page_start_to_query(
                             BaseQuery(experiment_id, first), sort, after_rowid))
    /\ UNCHANGED <<db, chain>>

(***************************************************************************)
(* Experiment.py:113-127: open the session, run the statement, assemble    *)
(* the connection.                                                         *)
(***************************************************************************)
ExecuteQuery ==
    /\ call.pc = "built"
    /\ \E rows \in Execute(call.query, db) :
         LET conn == Connection(rows, PageSize(call.first))
         IN  call' = [call EXCEPT !.pc = "done", !.session = TRUE,
                                  !.runs = conn.runs, !.cursors = conn.cursors,
                                  !.has_next_page = conn.has_next_page,
                                  !.has_previous_page = conn.has_previous_page]
    /\ UNCHANGED <<db, chain>>

\* The response is delivered.
Respond ==
    /\ call.pc = "done"
    /\ ~chain.active
    /\ call' = IdleCall
    /\ UNCHANGED <<db, chain>>

(***************************************************************************)
(* The client repeats a request that returned a page, keeping the page it  *)
(* got the first time.                                                     *)
(***************************************************************************)
Refetch ==
    /\ call.pc = "done"
    /\ call.via = "runs"
    /\ call.raised = ""
    /\ call.first_page = <<>>
    /\ ~chain.active
    /\ call' = [StartCall("runs", call.experiment_id, call.first, call.after, None,
                          call.sort,
                          RunsQuery(call.experiment_id, call.first, call.after, call.sort))
                   EXCEPT !.first_page =
                       <<[runs |-> call.runs, has_next_page |-> call.has_next_page]>>]
    /\ UNCHANGED <<db, chain>>

(***************************************************************************)
(* Writes of other sessions to experiment_runs.  While a response is being *)
(* delivered (pc = "done") it is compared with the table it was read from; *)
(* writes resume once it is consumed or the request is repeated.           *)
(* A write to the experiment of a repeated request voids the comparison    *)
(* with its first page; a write to another experiment is recorded.         *)
(***************************************************************************)
WriteLatencies == {10}

Written(c, experiment_id) ==
    IF c.first_page = <<>> THEN c
    ELSE IF c.experiment_id = experiment_id
    THEN [c EXCEPT !.first_page = <<>>, !.foreign_writes = FALSE]
    ELSE [c EXCEPT !.foreign_writes = TRUE]

InsertRun ==
    /\ call.pc # "done"
    /\ \E id \in RunIds, e \in ExperimentIds, x \in ExampleIds,
          n \in RepetitionNumbers, l \in WriteLatencies :
         /\ \A r \in db : r.id # id /\ ~SameKey(r, Row(id, e, x, n, l))
         /\ db' = db \cup {Row(id, e, x, n, l)}
         /\ call' = Written(call, e)
    /\ UNCHANGED chain

UpdateRun ==
    /\ call.pc # "done"
    /\ \E r \in db, x \in ExampleIds, n \in RepetitionNumbers :
         LET new == [r EXCEPT !.dataset_example_id = x, !.repetition_number = n]
         IN  /\ new # r
             /\ \A o \in db \ {r} : ~SameKey(o, new)
             /\ db' = (db \ {r}) \cup {new}
             /\ call' = Written(call, r.experiment_id)
    /\ UNCHANGED chain

DeleteRun ==
    /\ call.pc # "done"
    /\ \E r \in db :
         /\ db' = db \ {r}
         /\ call' = Written(call, r.experiment_id)
    /\ UNCHANGED chain

(***************************************************************************)
(* A client that pages through an experiment: the first request has no     *)
(* cursor, each next one has `after` = the cursor of the last run of the   *)
(* page before, until a page says it has no next page.                     *)
(***************************************************************************)
StartVia(via, experiment_id, first, sort, cursor) ==
    IF via = "runs"
    THEN StartCall("runs", experiment_id, first, cursor, None, sort,
                   RunsQuery(experiment_id, first, cursor, sort))
    ELSE LET rowid ==
                 IF cursor = UNSET THEN None
                 ELSE Some(from_global_id_with_expected_type(cursor, "ExperimentRun").value)
         IN  StartCall("builder", experiment_id, first, UNSET, rowid, sort,
                       add_order_by_and_page_start_to_query(
                           BaseQuery(experiment_id, first), sort, rowid))

ChainStart(via, experiment_id, first, sort) ==
    /\ call.pc = "idle"
    /\ chain = NoChain
    /\ call' = StartVia(via, experiment_id, first, sort, UNSET)
    /\ chain' = [NoChain EXCEPT !.active = TRUE, !.experiment_id = experiment_id,
                                !.sort = sort]
    /\ UNCHANGED db

ChainNext ==
    /\ chain.active
    /\ call.pc = "done"
    /\ call.raised = ""
    /\ call.has_next_page
    /\ call.runs # <<>>
    /\ call' = StartVia(call.via, call.experiment_id, call.first, call.sort,
                        call.cursors[Len(call.cursors)])
    /\ chain' = [chain EXCEPT !.runs = @ \o call.runs,
                              !.lasts = Append(@, call.runs[Len(call.runs)])]
    /\ UNCHANGED db

ChainEnd ==
    /\ chain.active
    /\ call.pc = "done"
    /\ call.raised = ""
    /\ ~call.has_next_page
    /\ call' = IdleCall
    /\ chain' = [chain EXCEPT !.active = FALSE, !.complete = TRUE,
                              !.runs = @ \o call.runs,
                              !.lasts = IF call.runs = <<>> THEN @
                                        ELSE Append(@, call.runs[Len(call.runs)])]
    /\ UNCHANGED db

ChainReset ==
    /\ chain.complete
    /\ chain' = NoChain
    /\ UNCHANGED <<db, call>>

(***************************************************************************)
(* Inputs.                                                                 *)
(***************************************************************************)
Firsts == {None} \cup {Some(n) : n \in 0..MaxFirst}

PageSizes == {Some(n) : n \in 1..MaxFirst}

AfterTokens ==
    {UNSET}
        \cup {GlobalID("ExperimentRun", Str(id)) : id \in RunIds}
        \cup {GlobalID("Experiment", Str(1)), GlobalID("ExperimentRun", <<"x">>)}

AfterRowids == {None} \cup {Some(id) : id \in RunIds}

LatencySorts == {MetricSort("latencyMs", d) : d \in SortDirs}

\* The tables over the row ids, a row id being absent or holding one of vals.
Absent == [experiment_id |-> 0, dataset_example_id |-> 0, repetition_number |-> 0,
           latency_ms |-> 0]

RowVals(experiments, examples, repetitions, latencies) ==
    [experiment_id : experiments, dataset_example_id : examples,
     repetition_number : repetitions, latency_ms : latencies]

TableOf(f) ==
    {Row(id, f[id].experiment_id, f[id].dataset_example_id, f[id].repetition_number,
         f[id].latency_ms) : id \in {i \in DOMAIN f : f[i] # Absent}}

\* Every table whose rows differ in their keys; the latency is not read.
KeyTables ==
    {t \in {TableOf(f) : f \in [RunIds -> {Absent} \cup RowVals(ExperimentIds, ExampleIds,
                                                   RepetitionNumbers, WriteLatencies)]} :
        UniqueKeys(t)}

\* Every table whose rows differ in experiment and latency; the row id
\* gives the key, which a latency sort does not read.
LatencyTables ==
    {{Row(id, f[id][1], ((id - 1) \div 2) + 1, ((id - 1) % 2) + 1, f[id][2]) :
        id \in {i \in RunIds : f[i][1] # 0}} :
            f \in [RunIds -> {<<0, 0>>} \cup (ExperimentIds \X LatencyValues)]}

(***************************************************************************)
(* Spec: the resolver with its default ordering against a table that other *)
(* sessions write to.                                                      *)
(***************************************************************************)
Init ==
    /\ db = {}
    /\ call = IdleCall
    /\ chain = NoChain

Next ==
    \/ InsertRun
    \/ UpdateRun
    \/ DeleteRun
    \/ \E e \in ExperimentIds, first \in Firsts, after \in AfterTokens :
         Runs(e, first, after, UnsetSort)
    \/ ExecuteQuery
    \/ Refetch
    \/ Respond

Spec == Init /\ [][Next]_vars

(***************************************************************************)
(* ChainSpec: a client pages through an experiment with the resolver's     *)
(* default ordering, over every table within the bounds.                   *)
(***************************************************************************)
InitChain ==
    /\ db \in KeyTables
    /\ call = IdleCall
    /\ chain = NoChain

NextChain ==
    \/ \E e \in ExperimentIds, first \in PageSizes : ChainStart("runs", e, first, UnsetSort)
    \/ ExecuteQuery
    \/ ChainNext
    \/ ChainEnd
    \/ ChainReset

ChainSpec == InitChain /\ [][NextChain]_vars

(***************************************************************************)
(* SortSpec: single page requests with every sort argument and every kind  *)
(* of cursor, through the resolver and through the query builder.  The     *)
(* tables hold, per row id, a run of either experiment or none, with       *)
(* latencies 10, 30, 20, ... by row id.                                    *)
(***************************************************************************)
LatencyOfId(id) == <<10, 30, 20>>[((id - 1) % 3) + 1]

SortTables ==
    {{Row(id, f[id], ((id - 1) \div 2) + 1, ((id - 1) % 2) + 1, LatencyOfId(id)) :
        id \in {i \in RunIds : f[i] # 0}} : f \in [RunIds -> {0} \cup ExperimentIds]}

InitSort ==
    /\ db \in SortTables
    /\ call = IdleCall
    /\ chain = NoChain

NextSort ==
    \/ \E e \in ExperimentIds, first \in Firsts, after \in AfterTokens, sort \in Sorts :
         Runs(e, first, after, sort)
    \/ \E e \in ExperimentIds, first \in Firsts, sort \in Sorts, rowid \in AfterRowids :
         BuildPage(e, first, sort, rowid)
    \/ ExecuteQuery
    \/ Respond

SortSpec == InitSort /\ [][NextSort]_vars

(***************************************************************************)
(* LatencySpec: the query builder with a latency sort, over every table    *)
(* within the bounds: single page requests with any row id to resume       *)
(* after, and a client paging through an experiment.                       *)
(***************************************************************************)
InitLatency ==
    /\ db \in LatencyTables
    /\ call = IdleCall
    /\ chain = NoChain

NextLatency ==
    \/ \E e \in ExperimentIds, first \in PageSizes, sort \in LatencySorts,
          rowid \in AfterRowids :
         BuildPage(e, first, sort, rowid)
    \/ ExecuteQuery
    \/ Respond
    \/ \E e \in ExperimentIds, first \in PageSizes, sort \in LatencySorts :
         ChainStart("builder", e, first, sort)
    \/ ChainNext
    \/ ChainEnd
    \/ ChainReset

LatencySpec == InitLatency /\ [][NextLatency]_vars

(***************************************************************************)
(* What the claims speak of.                                               *)
(***************************************************************************)
RunsOf(experiment_id) == {r \in db : r.experiment_id = experiment_id}

\* (dataset_example_id, repetition_number) of r1 is below that of r2.
KeyBelow(r1, r2) ==
    \/ r1.dataset_example_id < r2.dataset_example_id
    \/ /\ r1.dataset_example_id = r2.dataset_example_id
       /\ r1.repetition_number < r2.repetition_number

Elements(s) == {s[i] : i \in 1..Len(s)}

\* The rows a cursor identifies: the run it was made from, if still there.
IdentifiedBy(token) == {r \in db : Cursor(r) = token}

WellFormed(token) == token.type_name = "ExperimentRun" /\ IsDecimal(token.node_id)

\* The runs of the experiment beyond the cursor in the default ordering.
RowsBeyond(experiment_id, after) ==
    IF after = UNSET THEN RunsOf(experiment_id)
    ELSE {r \in RunsOf(experiment_id) : \E a \in IdentifiedBy(after) : KeyBelow(a, r)}

Unimplemented(sort) == sort.set /\ sort.metric # "latencyMs"

(***************************************************************************)
(* C1 (ChainSpec).  Paging through an experiment with the default sort,    *)
(* from no cursor and then after the last cursor of each page until        *)
(* hasNextPage is false, yields every run of the experiment exactly once,  *)
(* in ascending (dataset_example_id, repetition_number) order.             *)
(***************************************************************************)
C1_ChainYieldsEveryRunOnceInOrder ==
    chain.complete =>
        /\ Elements(chain.runs) = RunsOf(chain.experiment_id)
        /\ Len(chain.runs) = Cardinality(RunsOf(chain.experiment_id))
        /\ \A i \in 1..(Len(chain.runs) - 1) : KeyBelow(chain.runs[i], chain.runs[i + 1])

\* A complete chain of at least two pages over three runs.
C1_Witness ==
    /\ chain.complete
    /\ Len(chain.runs) >= 3
    /\ Len(chain.lasts) >= 2

(***************************************************************************)
(* C2 (Spec).  A returned page has hasNextPage exactly when more than      *)
(* pageSize runs of the experiment lie beyond the cursor; then it holds    *)
(* pageSize runs, otherwise it holds all the runs beyond the cursor.       *)
(***************************************************************************)
C2_HasNextPageIffMoreBeyond ==
    (call.pc = "done" /\ call.raised = "") =>
        LET beyond == RowsBeyond(call.experiment_id, call.after)
            page_size == PageSize(call.first)
        IN  /\ call.has_next_page <=> Cardinality(beyond) > page_size
            /\ call.has_next_page => Len(call.runs) = page_size
            /\ ~call.has_next_page =>
                   /\ Elements(call.runs) = beyond
                   /\ Len(call.runs) = Cardinality(beyond)

\* A page after a cursor that has a next page.
C2_Witness ==
    /\ call.pc = "done"
    /\ call.raised = ""
    /\ call.after # UNSET
    /\ call.has_next_page
    /\ call.runs # <<>>

(***************************************************************************)
(* C3 (SortSpec).  Experiment.runs with sort latencyMs desc returns a page *)
(* of runs in descending latency, all of them below the latency of the     *)
(* cursor's run when a cursor is given.                                    *)
(***************************************************************************)
C3_LatencyDescPage ==
    ( /\ call.pc = "done"
      /\ call.via = "runs"
      /\ call.sort = MetricSort("latencyMs", "desc")
      /\ call.after = UNSET \/ IdentifiedBy(call.after) # {} ) =>
        /\ call.raised = ""
        /\ \A i, j \in 1..Len(call.runs) :
               i < j => call.runs[i].latency_ms >= call.runs[j].latency_ms
        /\ \A i \in 1..Len(call.runs) : \A a \in IdentifiedBy(call.after) :
               call.runs[i].latency_ms < a.latency_ms

(***************************************************************************)
(* C4 (SortSpec).  A request whose sort selects tokenCountTotal,           *)
(* tokenCostTotal or an annotation name fails with NotImplementedError,    *)
(* with or without a cursor, in the resolver and in the builder; no page   *)
(* is returned, and in the builder the query is still the base query when  *)
(* the error is raised.                                                    *)
(***************************************************************************)
C4_UnimplementedSortFails ==
    (call.pc # "idle" /\ Unimplemented(call.sort)) =>
        /\ call.pc = "done"
        /\ call.raised = "NotImplementedError"
        /\ call.runs = <<>>
        /\ ~call.session
        /\ call.query = BaseQuery(call.experiment_id, call.first)

\* The builder fails on an annotation sort with a row to resume after.
C4_Witness ==
    /\ call.pc = "done"
    /\ call.via = "builder"
    /\ call.sort.annotation_name # "None"
    /\ call.after_rowid # None
    /\ call.raised = "NotImplementedError"

(***************************************************************************)
(* C5 (SortSpec).  As claimed: a call of Experiment.runs whose cursor is   *)
(* malformed or of another node type fails with BadRequest, for every sort *)
(* argument, and opens no session.                                         *)
(***************************************************************************)
C5_BadCursorIsBadRequest ==
    ( /\ call.pc = "done"
      /\ call.via = "runs"
      /\ call.after # UNSET
      /\ ~WellFormed(call.after) ) =>
        /\ call.raised = "BadRequest"
        /\ ~call.session

(***************************************************************************)
(* C5 (SortSpec), amended.  A call of Experiment.runs whose cursor is      *)
(* malformed or of another node type fails without opening a session:      *)
(* with BadRequest when no sort is given, with NotImplementedError when a  *)
(* sort is given.                                                          *)
(***************************************************************************)
C5_BadCursorFailsBeforeQuery ==
    ( /\ call.pc # "idle"
      /\ call.via = "runs"
      /\ call.after # UNSET
      /\ ~WellFormed(call.after) ) =>
        /\ call.pc = "done"
        /\ ~call.session
        /\ call.runs = <<>>
        /\ call.raised = IF call.sort.set THEN "NotImplementedError" ELSE "BadRequest"

\* BadRequest for a cursor of another node type, with the default page size.
C5_Witness ==
    /\ call.pc = "done"
    /\ call.via = "runs"
    /\ call.after = GlobalID("Experiment", Str(1))
    /\ call.first = None
    /\ call.raised = "BadRequest"
    /\ ~call.session

(***************************************************************************)
(* C6 (Spec).  Every run of a returned page belongs to the experiment the  *)
(* call was made on, whatever the cursor; the experiment filter is the     *)
(* first WHERE clause of the statement, before the after-predicate.        *)
(***************************************************************************)
C6_PageWithinExperiment ==
    /\ (call.pc \in {"built", "done"} /\ call.raised = "") =>
           /\ Len(call.query.where) >= 1
           /\ call.query.where[1] = Clause("experiment_id_eq", call.experiment_id)
    /\ call.pc = "done" =>
           \A i \in 1..Len(call.runs) : call.runs[i].experiment_id = call.experiment_id

\* A non-empty page after the cursor of a run of another experiment.
C6_Witness ==
    /\ call.pc = "done"
    /\ call.runs # <<>>
    /\ \E a \in IdentifiedBy(call.after) : a.experiment_id # call.experiment_id

(***************************************************************************)
(* C7 (Spec).  A call with the default sort whose cursor identifies a run  *)
(* of another experiment yields an empty page or an error.                 *)
(***************************************************************************)
C7_ForeignCursorYieldsNothing ==
    ( /\ call.pc = "done"
      /\ call.via = "runs"
      /\ ~call.sort.set
      /\ \E a \in IdentifiedBy(call.after) : a.experiment_id # call.experiment_id ) =>
        \/ call.raised # ""
        \/ call.runs = <<>>

(***************************************************************************)
(* C8 (Spec).  A call whose cursor is a well-formed ExperimentRun id that  *)
(* no row has fails with an error; it returns no page.                     *)
(***************************************************************************)
C8_MissingCursorRowFails ==
    ( /\ call.pc = "done"
      /\ call.via = "runs"
      /\ WellFormed(call.after)
      /\ IdentifiedBy(call.after) = {} ) =>
        call.raised # ""

(***************************************************************************)
(* C9 (Spec).  With the default sort and a cursor of a run of the          *)
(* experiment, a repeated call returns the runs and the hasNextPage of the *)
(* first call, whatever was written to the runs of other experiments       *)
(* between and during the two calls.                                       *)
(***************************************************************************)
C9_RefetchReturnsSamePage ==
    ( /\ call.pc = "done"
      /\ call.first_page # <<>>
      /\ \E a \in IdentifiedBy(call.after) : a.experiment_id = call.experiment_id ) =>
        /\ call.raised = ""
        /\ call.runs = call.first_page[1].runs
        /\ call.has_next_page = call.first_page[1].has_next_page

\* A repeated call with runs beyond the cursor, after writes to another
\* experiment.
C9_Witness ==
    /\ call.pc = "done"
    /\ call.first_page # <<>>
    /\ call.foreign_writes
    /\ call.runs # <<>>
    /\ \E a \in IdentifiedBy(call.after) : a.experiment_id = call.experiment_id

(***************************************************************************)
(* C10 (LatencySpec).  With a latency sort the builder's after-predicate   *)
(* keeps exactly the runs whose latency is above (asc) or below (desc) the *)
(* latency of the row resumed after; a chain of pages holds no run twice,  *)
(* and every run of the experiment a complete chain misses has the latency *)
(* of the last run of one of its pages.                                    *)
(***************************************************************************)
Past(sort, r, a) ==
    IF sort.dir = "asc" THEN r.latency_ms > a.latency_ms ELSE r.latency_ms < a.latency_ms

C10_LatencyTiesDroppedNeverDuplicated ==
    /\ (call.pc = "done" /\ call.raised = "" /\ call.after_rowid # None) =>
           LET kept == {r \in RunsOf(call.experiment_id) :
                           \E a \in db : a.id = call.after_rowid[1] /\ Past(call.sort, r, a)}
           IN  /\ Elements(call.runs) \subseteq kept
               /\ Len(call.runs) < PageSize(call.first) =>
                      Elements(call.runs) = kept
               /\ \A r \in kept \ Elements(call.runs) : \A i \in 1..Len(call.runs) :
                      ~Past(call.sort, call.runs[i], r)
    /\ LET got == IF chain.active /\ call.pc = "done"
                  THEN chain.runs \o call.runs ELSE chain.runs
       IN  \A i, j \in 1..Len(got) : i # j => got[i] # got[j]
    /\ chain.complete =>
           \A r \in RunsOf(chain.experiment_id) \ Elements(chain.runs) :
               \E i \in 1..Len(chain.lasts) : chain.lasts[i].latency_ms = r.latency_ms

\* A complete chain of two pages that missed a run.
C10_Witness ==
    /\ chain.complete
    /\ Len(chain.lasts) >= 2
    /\ RunsOf(chain.experiment_id) \ Elements(chain.runs) # {}

====
